---- MODULE Spec2Model ----
(***************************************************************************)
(* A model of the simplefs namespace operations of inode.c: lookup,       *)
(* create/mkdir, unlink/rmdir, rename, link and symlink over the on-disk   *)
(* structures of simplefs.h (extent-index blocks, directory blocks with    *)
(* the nr_blk run-length encoding, the two free bitmaps and the inode      *)
(* store).  The layout constants are scaled down so that blocks and        *)
(* extents fill up after a few operations.                                 *)
(***************************************************************************)
EXTENDS Integers, Sequences, FiniteSets, TLC

\* ------------------------------------------------------------------ sizes
\* SIMPLEFS_FILES_PER_BLOCK (15 in the source), scaled down.
FPB == 2
\* SIMPLEFS_MAX_BLOCKS_PER_EXTENT (8 in the source), scaled down.
MAX_BPE == 2
\* SIMPLEFS_MAX_EXTENTS (255 in the source), scaled down.
MAX_EXT == 2
\* SIMPLEFS_FILES_PER_EXT
FPE == FPB * MAX_BPE
\* SIMPLEFS_MAX_SUBFILES
MAX_SUBFILES == FPE * MAX_EXT
\* inode numbers are 0..NR_INODES-1; 0 means "none", 1 is the root directory
NR_INODES == 6
\* data blocks are numbered 1..NR_BLOCKS; 0 is the superblock and means "none"
NR_BLOCKS == 10
\* file names are 1..NR_NAMES; 0 is the all-zero name of a cleared slot
NR_NAMES == 3
\* number of namespace operations in one run
MaxSteps == 4
\* number of operations in one run that stays in the root directory
MaxRootSteps == 5
\* operations per run of SpecFile
MaxFileSteps == 3
\* sizeof(ci->i_data): a symlink target of length l needs l+1 <= DATA_LEN
DATA_LEN == 32
\* the directory at which the namespace starts
ROOT_INO == 1
\* the block holding the root's extent index in a fresh image
ROOT_EI == 1
\* uint32_t arithmetic wraps; TLC's integers are 32-bit signed, so the
\* modulus 2^30 stands for 2^32 (every value of the model is within a few
\* units of 0 modulo the word size)
WORD == 2^30

U32(x) == x % WORD

Names == 1..NR_NAMES
\* the image on which one directory is filled to its limit: inode 0 is
\* reserved, then the root, MAX_SUBFILES children and one spare inode; the
\* root's index block, one index block per child, every block of every
\* extent of the root and one spare block
FillInodes == MAX_SUBFILES + 3
FillBlocks == MAX_SUBFILES + MAX_EXT * MAX_BPE + 2
\* inode and block numbers of the image of NR_INODES inodes and NR_BLOCKS
\* blocks
Inos == 1..(NR_INODES - 1)
Bnos == 1..NR_BLOCKS
Slots == 0..(FPB - 1)
Exts == 0..(MAX_EXT - 1)

S_IFREG == "REG"
S_IFDIR == "DIR"
S_IFLNK == "LNK"
MODE_ZERO == "0"

Min(S) == CHOOSE x \in S : \A y \in S : x <= y

\* ------------------------------------------------------- on-disk records
\* struct simplefs_file, all bytes zero
ZeroFile == [inode |-> 0, nr_blk |-> 0, filename |-> 0]
\* struct simplefs_extent, all bytes zero
ZeroExt == [ee_block |-> 0, ee_len |-> 0, ee_start |-> 0, nr_files |-> 0]
\* One block, seen either as struct simplefs_file_ei_block (nr_files,
\* extents) or as struct simplefs_dir_block (nr_files, files); nr_files is
\* the first word of both layouts.
ZeroBlock ==
    [nr_files |-> 0,
     files |-> [i \in Slots |-> ZeroFile],
     extents |-> [i \in Exts |-> ZeroExt]]
\* struct simplefs_inode, all bytes zero
ZeroInode ==
    [i_mode |-> MODE_ZERO, i_nlink |-> 0, i_size |-> 0, i_blocks |-> 0,
     ei_block |-> 0, i_data |-> 0]

VARIABLES
    inode,           \* the inode store: inode number -> struct simplefs_inode
    blk,             \* the data blocks: block number -> block content
    ifree,           \* sbi->ifree_bitmap: the set of free inode numbers
    bfree,           \* sbi->bfree_bitmap: the set of free block numbers
    nr_free_inodes,  \* sbi->nr_free_inodes
    nr_free_blocks,  \* sbi->nr_free_blocks
    fault,           \* "none", or why the kernel left defined behaviour
    steps            \* number of operations so far

vars == <<inode, blk, ifree, bfree, nr_free_inodes, nr_free_blocks,
          fault, steps>>

\* the file system as one value, for the operators below
FS ==
    [inode |-> inode, blk |-> blk, ifree |-> ifree, bfree |-> bfree,
     nr_free_inodes |-> nr_free_inodes, nr_free_blocks |-> nr_free_blocks]

\* ------------------------------------------------------ bitmap allocator
\* get_free_inode: lowest free inode number, 0 when none
get_free_inode(s) == IF s.ifree = {} THEN 0 ELSE Min(s.ifree)

take_inode(s, ino) ==
    [s EXCEPT !.ifree = @ \ {ino}, !.nr_free_inodes = U32(@ - 1)]

\* get_free_blocks: first run of len free blocks, 0 when none
get_free_blocks(s, len) ==
    LET runs == {b \in DOMAIN s.blk :
                    \A k \in 0..(len - 1) : (b + k) \in s.bfree}
    IN  IF runs = {} THEN 0 ELSE Min(runs)

take_blocks(s, bno, len) ==
    [s EXCEPT !.bfree = @ \ (bno..(bno + len - 1)),
              !.nr_free_blocks = U32(@ - len)]

\* put_inode: set the bit free, count it
put_inode(s, ino) ==
    [s EXCEPT !.ifree = @ \cup {ino}, !.nr_free_inodes = U32(@ + 1)]

\* put_blocks: set the bits free, count them
put_blocks(s, bno, len) ==
    [s EXCEPT !.bfree = @ \cup (bno..(bno + len - 1)),
              !.nr_free_blocks = U32(@ + len)]

\* --------------------------------------------------------------- lookup
\* Results of a directory walk that left defined behaviour
HANG == -1
OOB == -2

\* the fi loop of simplefs_lookup over one directory block: "found" with
\* the inode number, "end" (goto search_end on a free slot), "next" (go to
\* the next block), "hang" (fi no longer advances) or "oob"
RECURSIVE lookup_blk(_, _, _, _)
lookup_blk(db, name, fi, fuel) ==
    IF ~(fi < db.nr_files) THEN [t |-> "next", ino |-> 0]
    ELSE IF fi >= FPB THEN [t |-> "oob", ino |-> 0]
    ELSE IF fuel = 0 THEN [t |-> "hang", ino |-> 0]
    ELSE LET f == db.files[fi] IN
         IF f.inode = 0 THEN [t |-> "end", ino |-> 0]
         ELSE IF f.filename = name THEN [t |-> "found", ino |-> f.inode]
         ELSE lookup_blk(db, name, U32(fi + f.nr_blk), fuel - 1)

\* the ei/bi loops of simplefs_lookup from extent ei, block bi
RECURSIVE lookup_from(_, _, _, _, _)
lookup_from(s, eb, name, ei, bi) ==
    IF ei >= MAX_EXT THEN 0
    ELSE IF eb.extents[ei].ee_start = 0 THEN 0
    ELSE IF bi >= eb.extents[ei].ee_len THEN lookup_from(s, eb, name, ei + 1, 0)
    ELSE LET r == lookup_blk(s.blk[eb.extents[ei].ee_start + bi], name, 0,
                             FPB + 1)
         IN  CASE r.t = "found" -> r.ino
               [] r.t = "end" -> 0
               [] r.t = "hang" -> HANG
               [] r.t = "oob" -> OOB
               [] OTHER -> lookup_from(s, eb, name, ei, bi + 1)

\* simplefs_lookup: the inode number attached to the dentry, 0 for a
\* negative dentry
simplefs_lookup(s, dir, name) ==
    lookup_from(s, s.blk[s.inode[dir].ei_block], name, 0, 0)

\* ------------------------------------------------------------ new inode
\* simplefs_new_inode: reserve an inode (and, unless a symlink, the block of
\* its extent index) and initialise the in-core inode.  ret is "OK" or the
\* error; ino is the inode of the result.  The in-core inode starts from the
\* stored record (simplefs_iget), so a symlink keeps the stored ei_block.
\* an inode allocation that gives a symlink an index block as well
new_inode_with_block(s, mode) ==
    IF s.nr_free_inodes = 0 \/ s.nr_free_blocks = 0
    THEN [s |-> s, ino |-> 0, ret |-> "ENOSPC"]
    ELSE LET ino == get_free_inode(s) IN
    IF ino = 0 THEN [s |-> s, ino |-> 0, ret |-> "ENOSPC"]
    ELSE LET s1 == take_inode(s, ino)
             bno == get_free_blocks(s1, 1) IN
    IF bno = 0
    THEN [s |-> put_inode(s1, ino), ino |-> 0, ret |-> "ENOSPC"]
    ELSE [s |-> [take_blocks(s1, bno, 1) EXCEPT
                    !.inode[ino].i_mode = mode,
                    !.inode[ino].i_blocks = 1,
                    !.inode[ino].ei_block = bno,
                    !.inode[ino].i_size = IF mode = S_IFDIR THEN 4096 ELSE 0,
                    !.inode[ino].i_nlink = IF mode = S_IFDIR THEN 2 ELSE 1],
          ino |-> ino, ret |-> "OK"]

simplefs_new_inode(s, mode) ==
    IF s.nr_free_inodes = 0 \/ s.nr_free_blocks = 0
    THEN [s |-> s, ino |-> 0, ret |-> "ENOSPC"]
    ELSE LET ino == get_free_inode(s) IN
    IF ino = 0 THEN [s |-> s, ino |-> 0, ret |-> "ENOSPC"]
    ELSE LET s1 == take_inode(s, ino) IN
    IF mode = S_IFLNK
    THEN [s |-> [s1 EXCEPT !.inode[ino].i_mode = S_IFLNK,
                           !.inode[ino].i_nlink = 1],
          ino |-> ino, ret |-> "OK"]
    ELSE LET bno == get_free_blocks(s1, 1) IN
    IF bno = 0
    THEN [s |-> put_inode(s1, ino), ino |-> 0, ret |-> "ENOSPC"]
    ELSE [s |-> [take_blocks(s1, bno, 1) EXCEPT
                    !.inode[ino].i_mode = mode,
                    !.inode[ino].i_blocks = 1,
                    !.inode[ino].ei_block = bno,
                    !.inode[ino].i_size = IF mode = S_IFDIR THEN 4096 ELSE 0,
                    !.inode[ino].i_nlink = IF mode = S_IFDIR THEN 2 ELSE 1],
          ino |-> ino, ret |-> "OK"]

\* ------------------------------------------------------ extent selection
\* simplefs_get_available_ext_idx: the loop from extent ei on; dnf is
\* *dir_nr_files, first is first_empty_blk (-1 when unset).  Returns the
\* chosen index and what is left in *dir_nr_files.
RECURSIVE avail_from(_, _, _, _)
avail_from(eb, ei, dnf, first) ==
    IF ei >= MAX_EXT THEN [avail |-> first, dnf |-> dnf]
    ELSE LET e == eb.extents[ei] IN
         IF e.ee_start # 0 /\ e.nr_files # FPE
         THEN [avail |-> ei, dnf |-> dnf]
         ELSE LET dnf1 == IF e.ee_start = 0 THEN dnf ELSE U32(dnf - e.nr_files)
                  first1 == IF e.ee_start = 0
                            THEN (IF first = -1 THEN ei ELSE first)
                            ELSE (IF first = -1 /\ dnf1 = 0 THEN ei + 1
                                  ELSE first)
              IN  IF dnf1 = 0 THEN [avail |-> first1, dnf |-> dnf1]
                  ELSE avail_from(eb, ei + 1, dnf1, first1)

\* an extent choice that never leaves extent 0
always_first_ext(dir_nr_files, eb) == [avail |-> 0, dnf |-> dir_nr_files]

simplefs_get_available_ext_idx(dir_nr_files, eb) ==
    avail_from(eb, 0, dir_nr_files, -1)

\* a freshly seeded directory block of simplefs_put_new_ext
SeededBlock == [ZeroBlock EXCEPT !.files[0].nr_blk = FPB]

\* simplefs_put_new_ext on the extent index held in block ebno; failAt is
\* the bi whose sb_bread fails (-1: none).  The extent record is written
\* before the blocks are seeded.
simplefs_put_new_ext(s, ebno, ei, failAt) ==
    LET bno == get_free_blocks(s, MAX_BPE) IN
    IF bno = 0 THEN [s |-> s, ret |-> "ENOSPC"]
    ELSE LET s1 == take_blocks(s, bno, MAX_BPE)
             eb == s1.blk[ebno]
             ext == [ee_start |-> bno, ee_len |-> MAX_BPE,
                     ee_block |-> IF ei # 0
                                  THEN U32(eb.extents[ei - 1].ee_block +
                                           eb.extents[ei - 1].ee_len)
                                  ELSE 0,
                     nr_files |-> 0]
             upto == IF failAt < 0 THEN MAX_BPE ELSE failAt
             s2 == [s1 EXCEPT !.blk =
                      [b \in DOMAIN s.blk |->
                         IF b = ebno THEN [eb EXCEPT !.extents[ei] = ext]
                         ELSE IF b >= bno /\ b < bno + upto THEN SeededBlock
                         ELSE s1.blk[b]]]
         IN  [s |-> s2, ret |-> IF failAt < 0 THEN "OK" ELSE "EIO"]

\* ------------------------------------------------------ slot insertion
\* the slot at which the first branch of simplefs_set_file_into_dir stops
RECURSIVE first_run_end(_, _)
first_run_end(db, fi) ==
    IF fi < FPB - 1 /\ db.files[fi].nr_blk = 1 THEN first_run_end(db, fi + 1)
    ELSE fi

\* simplefs_set_file_into_dir.  ufi is the value of the uninitialised local
\* fi that the second and third branch read.  oob: the write went past the
\* files array.
simplefs_set_file_into_dir(db, inode_no, name, ufi) ==
    IF db.nr_files # 0 /\ db.files[0].inode # 0
    THEN LET fi == first_run_end(db, 0) IN
         IF fi + 1 >= FPB THEN [db |-> db, oob |-> TRUE]
         ELSE [db |-> [db EXCEPT
                         !.files[fi + 1] =
                             [inode |-> inode_no,
                              nr_blk |-> U32(db.files[fi].nr_blk - 1),
                              filename |-> name],
                         !.files[fi].nr_blk = 1,
                         !.nr_files = U32(@ + 1)],
               oob |-> FALSE]
    ELSE IF db.nr_files = 0
    THEN [db |-> [db EXCEPT !.files[ufi].inode = inode_no,
                            !.files[ufi].filename = name,
                            !.nr_files = U32(@ + 1)],
          oob |-> FALSE]
    ELSE [db |-> [[db EXCEPT !.files[0].inode = inode_no] EXCEPT
                            !.files[ufi].filename = name,
                            !.nr_files = U32(@ + 1)],
          oob |-> FALSE]

\* the "find which simplefs_dir_block has free space" loop: the first
\* block of the extent whose nr_files is not FPB, else the last one read
\* a block choice that never leaves the block it starts at
first_block_only(s, e, bi) == bi

RECURSIVE find_block(_, _, _)
find_block(s, e, bi) ==
    IF bi + 1 >= e.ee_len THEN bi
    ELSE IF s.blk[e.ee_start + bi].nr_files # FPB THEN bi
    ELSE find_block(s, e, bi + 1)

\* results of an operation: the file system after it, the error code
\* ("OK" for 0) and whether it left defined behaviour
Done(s, ret) == [s |-> s, ret |-> ret, fault |-> "none"]
Fault(s, why) == [s |-> s, ret |-> "FAULT", fault |-> why]

\* the sb_bread calls that may fail: none, the first one of
\* simplefs_put_new_ext, the first one of the block-finding loop
IoPoints == {"none", "seed", "find"}

\* The part that simplefs_create (inode.c 475-515), simplefs_link
\* (1003-1042) and simplefs_symlink (1104-1143) share: choose the extent,
\* allocate it if needed, find the block, write the slot, count the entry.
\* who tells the callers apart: only create counts the entry in the
\* extent, and link and symlink roll back extents[ei] with ei = 0.
insert_entry(s, dir, inode_no, name, ufi, io, who) ==
    LET ebno == s.inode[dir].ei_block
        eb == s.blk[ebno]
        a == simplefs_get_available_ext_idx(eb.nr_files, eb)
        avail == a.avail
    IN
    IF avail < 0 \/ avail >= MAX_EXT THEN Fault(s, "extent index out of range")
    ELSE
    LET needNew == a.dnf = 0 /\ eb.extents[avail].ee_start = 0
        p == IF needNew
             THEN simplefs_put_new_ext(s, ebno, avail,
                                       IF io = "seed" THEN 0 ELSE -1)
             ELSE [s |-> s, ret |-> "OK"]
    IN
    IF p.ret = "ENOSPC" THEN Done(s, "ENOSPC")
    ELSE IF p.ret = "EIO" THEN Done(p.s, "EIO")   \* put_block with alloc = false
    ELSE
    LET s1 == p.s
        e == s1.blk[ebno].extents[avail]
        rb == IF who = "create" THEN avail ELSE 0
        re == s1.blk[ebno].extents[rb]
    IN
    IF e.ee_len = 0 THEN Fault(s, "dblock used uninitialised")
    ELSE IF io = "find"
    THEN IF needNew /\ re.ee_start # 0
         THEN Done([put_blocks(s1, re.ee_start, re.ee_len) EXCEPT
                       !.blk[ebno].extents[rb] = ZeroExt], "EIO")
         ELSE Done(s1, "EIO")
    ELSE
    LET bno == e.ee_start + find_block(s1, e, 0)
        r == simplefs_set_file_into_dir(s1.blk[bno], inode_no, name, ufi)
    IN
    IF r.oob THEN Fault(s, "directory slot out of range")
    ELSE Done([s1 EXCEPT
                 !.blk[bno] = r.db,
                 !.blk[ebno].nr_files = U32(@ + 1),
                 !.blk[ebno].extents[avail].nr_files =
                     IF who = "create" THEN U32(@ + 1) ELSE @],
              "OK")

\* simplefs_create (and simplefs_mkdir, which passes S_IFDIR)
simplefs_create(s, dir, name, mode, ufi, io) ==
    IF s.blk[s.inode[dir].ei_block].nr_files = MAX_SUBFILES
    THEN Done(s, "EMLINK")
    ELSE
    LET n == simplefs_new_inode(s, mode) IN
    IF n.ret # "OK" THEN Done(n.s, n.ret)
    ELSE
    LET cbno == n.s.inode[n.ino].ei_block
        s1 == [n.s EXCEPT !.blk[cbno] = ZeroBlock]
        t == insert_entry(s1, dir, n.ino, name, ufi, io, "create")
    IN
    IF t.fault # "none" THEN Fault(s, t.fault)
    ELSE IF t.ret # "OK"
    THEN \* iput: the index block and the inode go back; the inode was never
         \* marked dirty, so its stored record is the old one
         Done([put_inode(put_blocks(t.s, cbno, 1), n.ino) EXCEPT
                  !.inode = s.inode], t.ret)
    ELSE Done([t.s EXCEPT !.inode[dir].i_nlink =
                             IF mode = S_IFDIR THEN U32(@ + 1) ELSE @],
              "OK")

\* simplefs_link
simplefs_link(s, old_ino, dir, name, ufi, io) ==
    IF s.blk[s.inode[dir].ei_block].nr_files = MAX_SUBFILES
    THEN Done(s, "EMLINK")
    ELSE
    LET t == insert_entry(s, dir, old_ino, name, ufi, io, "link") IN
    IF t.fault # "none" \/ t.ret # "OK" THEN t
    ELSE Done([t.s EXCEPT !.inode[old_ino].i_nlink = U32(@ + 1)], "OK")

\* simplefs_symlink; len is strlen(symname).  The inode is allocated before
\* any check, and the result of simplefs_new_inode is not tested.
simplefs_symlink(s, dir, name, len, ufi, io) ==
    LET n == simplefs_new_inode(s, S_IFLNK)
        \* what the failure paths leave: the bitmap change, no stored inode
        leak == [n.s EXCEPT !.inode = s.inode]
    IN
    IF len + 1 > DATA_LEN THEN Done(leak, "ENAMETOOLONG")
    ELSE IF s.blk[s.inode[dir].ei_block].nr_files = MAX_SUBFILES
    THEN Done(leak, "EMLINK")
    ELSE
    LET t == insert_entry(n.s, dir, n.ino, name, ufi, io, "symlink") IN
    IF t.fault # "none" THEN Fault(s, t.fault)
    ELSE IF t.ret # "OK" THEN Done([t.s EXCEPT !.inode = s.inode], t.ret)
    ELSE IF n.ret # "OK" THEN Fault(s, "ERR_PTR inode dereferenced")
    ELSE Done([t.s EXCEPT !.inode[n.ino].i_data = len,
                          !.inode[n.ino].i_size = len], "OK")

\* ------------------------------------------------------------- removal
\* the fi loop of simplefs_remove_from_dir over one block; cnt is
\* blk_nr_files
RECURSIVE remove_blk(_, _, _, _, _, _)
remove_blk(db, name, ino, fi, cnt, fuel) ==
    IF cnt = 0 \/ fi >= FPB THEN [t |-> "none", fi |-> 0]
    ELSE IF fuel = 0 THEN [t |-> "hang", fi |-> 0]
    ELSE LET f == db.files[fi] IN
         IF f.inode # 0 /\ f.inode = ino /\ f.filename = name
         THEN [t |-> "found", fi |-> fi]
         ELSE remove_blk(db, name, ino, U32(fi + f.nr_blk),
                         IF f.inode # 0 THEN cnt - 1 ELSE cnt, fuel - 1)

\* the slot that "merge the empty data" adds the freed run to
RECURSIVE merge_slot(_, _)
merge_slot(db, i) ==
    IF db.files[i].inode # 0 \/ i = 0 THEN i ELSE merge_slot(db, i - 1)

\* the block after the match at slot fi was removed
remove_slot(db, fi) ==
    LET d1 == [db EXCEPT !.files[fi].inode = 0]
        d2 == IF fi = 0 THEN d1
              ELSE LET i == merge_slot(d1, fi - 1) IN
                   [d1 EXCEPT !.files[i].nr_blk = U32(@ + d1.files[fi].nr_blk)]
    IN  [d2 EXCEPT !.nr_files = U32(@ - 1)]

\* the bi loop of simplefs_remove_from_dir over extent e
RECURSIVE remove_ext(_, _, _, _, _)
remove_ext(s, e, name, ino, bi) ==
    IF bi >= e.ee_len THEN [t |-> "none", bi |-> 0, fi |-> 0]
    ELSE LET db == s.blk[e.ee_start + bi]
             r == remove_blk(db, name, ino, 0, db.nr_files, FPB * (FPB + 2))
         IN  IF r.t = "none" THEN remove_ext(s, e, name, ino, bi + 1)
             ELSE [t |-> r.t, bi |-> bi, fi |-> r.fi]

\* the ei loop of simplefs_remove_from_dir; dnf is dir_nr_files
RECURSIVE remove_from(_, _, _, _, _, _)
remove_from(s, ebno, name, ino, ei, dnf) ==
    IF dnf = 0 THEN [s |-> s, found |-> FALSE, fault |-> "none"]
    ELSE IF ei >= MAX_EXT
    THEN [s |-> s, found |-> FALSE, fault |-> "extent index out of range"]
    ELSE LET e == s.blk[ebno].extents[ei] IN
    IF e.ee_start = 0 THEN remove_from(s, ebno, name, ino, ei + 1, dnf)
    ELSE LET r == remove_ext(s, e, name, ino, 0) IN
    IF r.t = "hang"
    THEN [s |-> s, found |-> FALSE, fault |-> "directory walk does not end"]
    ELSE IF r.t = "found"
    THEN [s |-> [s EXCEPT
                   !.blk[e.ee_start + r.bi] = remove_slot(@, r.fi),
                   !.blk[ebno].extents[ei].nr_files = U32(@ - 1),
                   !.blk[ebno].nr_files = U32(@ - 1)],
          found |-> TRUE, fault |-> "none"]
    ELSE remove_from(s, ebno, name, ino, ei + 1, U32(dnf - e.nr_files))

\* simplefs_remove_from_dir: returns 0 whether or not the entry was found
simplefs_remove_from_dir(s, dir, name, ino) ==
    LET ebno == s.inode[dir].ei_block IN
    remove_from(s, ebno, name, ino, 0, s.blk[ebno].nr_files)

\* the extent loop of simplefs_unlink: release and scrub every extent up to
\* the first empty one
RECURSIVE release_extents(_, _, _)
release_extents(s, eb, ei) ==
    IF ei >= MAX_EXT THEN s
    ELSE IF eb.extents[ei].ee_start = 0 THEN s
    ELSE LET e == eb.extents[ei]
             s1 == put_blocks(s, e.ee_start, e.ee_len)
             s2 == [s1 EXCEPT !.blk =
                      [b \in DOMAIN s.blk |->
                         IF b >= e.ee_start /\ b < e.ee_start + e.ee_len
                         THEN ZeroBlock ELSE s1.blk[b]]]
         IN  release_extents(s2, eb, ei + 1)

\* clean_inode without the release of the extent-index block
clean_inode_keeps_index(s, ino, bno) ==
    put_inode([s EXCEPT !.inode[ino].i_blocks = 0,
                        !.inode[ino].ei_block = 0,
                        !.inode[ino].i_size = 0,
                        !.inode[ino].i_nlink = U32(@ - 1),
                        !.inode[ino].i_mode = MODE_ZERO], ino)

\* the clean_inode part of simplefs_unlink; bno is 0 when it is reached by
\* the symlink shortcut
clean_inode(s, ino, bno) ==
    LET m == s.inode[ino].i_mode
        s1 == [s EXCEPT !.inode[ino].i_blocks = 0,
                        !.inode[ino].ei_block = 0,
                        !.inode[ino].i_size = 0,
                        !.inode[ino].i_nlink = U32(@ - 1)]
        s2 == IF m # S_IFLNK THEN put_blocks(s1, bno, 1) ELSE s1
    IN  put_inode([s2 EXCEPT !.inode[ino].i_mode = MODE_ZERO], ino)

\* the sb_bread of simplefs_unlink that may fail: none, the one of the
\* inode's extent index
UnlinkIo == {"none", "index"}

\* simplefs_unlink of the entry (name, ino) of dir
simplefs_unlink(s, dir, name, ino, io) ==
    LET r == simplefs_remove_from_dir(s, dir, name, ino) IN
    IF r.fault # "none" THEN Fault(s, r.fault)
    ELSE
    LET m == r.s.inode[ino].i_mode IN
    IF m = S_IFLNK THEN Done(clean_inode(r.s, ino, 0), "OK")
    ELSE
    LET s1 == IF m = S_IFDIR
              THEN [r.s EXCEPT !.inode[dir].i_nlink = U32(@ - 1),
                               !.inode[ino].i_nlink = U32(@ - 1)]
              ELSE r.s
        bno == s1.inode[ino].ei_block
    IN
    IF s1.inode[ino].i_nlink > 1
    THEN Done([s1 EXCEPT !.inode[ino].i_nlink = U32(@ - 1)], "OK")
    ELSE IF bno = 0
    THEN \* sb_bread(sb, 0) hands the superblock to the extent loop; what is
         \* certain is that the inode is cleaned and released once more
         Fault(put_inode([s1 EXCEPT !.inode[ino].i_nlink = U32(@ - 1),
                                    !.inode[ino].i_mode = MODE_ZERO], ino),
               "superblock read as extent index")
    ELSE IF io = "index"
    THEN \* the index block cannot be read: its extents stay allocated
         Done(clean_inode(s1, ino, bno), "OK")
    ELSE
    LET s2 == release_extents(s1, s1.blk[bno], 0)
        s3 == [s2 EXCEPT !.blk[bno] = ZeroBlock]
    IN  Done(clean_inode(s3, ino, bno), "OK")

\* simplefs_rmdir
simplefs_rmdir(s, dir, name, ino) ==
    IF s.inode[ino].i_nlink > 2 THEN Done(s, "ENOTEMPTY")
    ELSE IF s.blk[s.inode[ino].ei_block].nr_files # 0
    THEN Done(s, "ENOTEMPTY")
    ELSE simplefs_unlink(s, dir, name, ino, "none")

\* -------------------------------------------------------------- rename
\* the fi loop of simplefs_rename over one block of new_dir; cnt is
\* blk_nr_files, same is new_dir == old_dir
RECURSIVE rename_blk(_, _, _, _, _, _)
rename_blk(db, same, oldname, newname, fi, cnt) ==
    IF cnt = 0 THEN [t |-> "next", fi |-> 0]
    ELSE IF fi >= FPB THEN [t |-> "oob", fi |-> 0]
    ELSE LET f == db.files[fi] IN
         IF same /\ f.inode # 0 /\ f.filename = oldname
         THEN [t |-> "inplace", fi |-> fi]
         ELSE IF ~same /\ f.inode # 0 /\ f.filename = newname
         THEN [t |-> "exists", fi |-> fi]
         ELSE IF ~same /\ f.nr_blk # 1
         THEN [t |-> "pos", fi |-> fi + 1]
         ELSE rename_blk(db, same, oldname, newname, U32(fi + f.nr_blk),
                         cnt - 1)

\* the ei/bi loops of simplefs_rename; the result carries ei as the code
\* leaves it when no position was found
RECURSIVE rename_scan(_, _, _, _, _, _, _)
rename_scan(s, eb, same, oldname, newname, ei, bi) ==
    IF ei >= MAX_EXT \/ eb.extents[ei].ee_start = 0
    THEN [t |-> "none", ei |-> ei, bno |-> 0, fi |-> 0]
    ELSE IF bi >= eb.extents[ei].ee_len
    THEN rename_scan(s, eb, same, oldname, newname, ei + 1, 0)
    ELSE LET bno == eb.extents[ei].ee_start + bi
             r == rename_blk(s.blk[bno], same, oldname, newname, 0,
                             s.blk[bno].nr_files)
         IN  IF r.t = "next"
             THEN rename_scan(s, eb, same, oldname, newname, ei, bi + 1)
             ELSE [t |-> r.t, ei |-> ei, bno |-> bno, fi |-> r.fi]

\* lines 877-914 of simplefs_rename: link counts of the two parents and the
\* removal from old_dir
rename_finish(s0, s, old_dir, old_name, src, new_dir) ==
    LET isdir == s.inode[src].i_mode = S_IFDIR
        s1 == IF isdir THEN [s EXCEPT !.inode[new_dir].i_nlink = U32(@ + 1)]
              ELSE s
        r == simplefs_remove_from_dir(s1, old_dir, old_name, src)
    IN  IF r.fault # "none" THEN Fault(s0, r.fault)
        ELSE Done(IF isdir
                  THEN [r.s EXCEPT !.inode[old_dir].i_nlink = U32(@ - 1)]
                  ELSE r.s, "OK")

\* simplefs_rename (flags without RENAME_EXCHANGE and RENAME_WHITEOUT)
simplefs_rename(s, old_dir, old_name, src, new_dir, new_name) ==
    LET ebno == s.inode[new_dir].ei_block
        eb == s.blk[ebno]
        w == rename_scan(s, eb, new_dir = old_dir, old_name, new_name, 0, 0)
    IN
    CASE w.t = "oob" -> Fault(s, "directory slot out of range")
      [] w.t = "inplace" ->
            Done([s EXCEPT !.blk[w.bno].files[w.fi].filename = new_name], "OK")
      [] w.t = "exists" -> Done(s, "EEXIST")
      [] w.t = "pos" ->
            IF w.fi >= FPB THEN Fault(s, "directory slot out of range")
            ELSE rename_finish(s,
                     [s EXCEPT !.blk[w.bno].files[w.fi].inode = src,
                               !.blk[w.bno].files[w.fi].filename = new_name],
                     old_dir, old_name, src, new_dir)
      [] OTHER ->
            IF eb.nr_files = FPE THEN Done(s, "EMLINK")
            ELSE LET bno == get_free_blocks(s, MAX_BPE) IN
            IF bno = 0 THEN Done(s, "ENOSPC")
            ELSE IF w.ei >= MAX_EXT
            THEN Fault(s, "extent index out of range")
            ELSE
            LET s1 == take_blocks(s, bno, MAX_BPE)
                s2 == [s1 EXCEPT
                         !.blk[ebno].extents[w.ei].ee_start = bno,
                         !.blk[ebno].extents[w.ei].ee_len = MAX_BPE,
                         !.blk[ebno].extents[w.ei].ee_block =
                             IF w.ei # 0
                             THEN U32(eb.extents[w.ei - 1].ee_block +
                                      eb.extents[w.ei - 1].ee_len)
                             ELSE 0,
                         !.blk[bno].files[0].inode = src,
                         !.blk[bno].files[0].filename = new_name]
            IN  rename_finish(s, s2, old_dir, old_name, src, new_dir)

\* ------------------------------------------------------------ file data
\* the lengths of the block runs the allocator hands out
RunLens == {1, MAX_BPE}

\* the first empty extent record of index block eb, MAX_EXT when none
RECURSIVE first_empty_ext(_, _)
first_empty_ext(eb, ei) ==
    IF ei >= MAX_EXT THEN MAX_EXT
    ELSE IF eb.extents[ei].ee_start = 0 THEN ei
    ELSE first_empty_ext(eb, ei + 1)

\* a write that extends regular file ino by one extent of len blocks: the
\* run is taken from the block bitmap and recorded in the first empty
\* extent of the file's index, after the logical range of the one before
simplefs_file_get_block(s, ino, len) ==
    LET ebno == s.inode[ino].ei_block
        ei == first_empty_ext(s.blk[ebno], 0)
        bno == get_free_blocks(s, len)
    IN  IF ei >= MAX_EXT THEN Done(s, "EFBIG")
        ELSE IF bno = 0 THEN Done(s, "ENOSPC")
        ELSE Done([take_blocks(s, bno, len) EXCEPT
                     !.blk[ebno].extents[ei] =
                        [ee_block |->
                            IF ei # 0
                            THEN s.blk[ebno].extents[ei - 1].ee_block +
                                 s.blk[ebno].extents[ei - 1].ee_len
                            ELSE 0,
                         ee_len |-> len, ee_start |-> bno, nr_files |-> 0]],
                  "OK")

\* ------------------------------------------------------------ the system
\* what the VFS resolves before it calls an inode operation: the
\* directories reachable from the root by at most two lookups
IsDir(s, i) == i > 0 /\ s.inode[i].i_mode = S_IFDIR
Level1(s) == {i \in DOMAIN s.inode : \E n \in Names :
                 simplefs_lookup(s, ROOT_INO, n) = i /\ IsDir(s, i)}
Level2(s) == {i \in DOMAIN s.inode : \E d \in Level1(s), n \in Names :
                 simplefs_lookup(s, d, n) = i /\ IsDir(s, i)}
DirSet(s) == {ROOT_INO} \cup Level1(s) \cup Level2(s)

\* values the uninitialised fi of simplefs_set_file_into_dir may hold
UninitFi == Slots
\* strlen(symname) of the symlinks created
TargetLens == {6, DATA_LEN}

\* a fresh image of ni inodes and nb blocks
InitImage(ni, nb) ==
    /\ inode = [i \in 1..(ni - 1) |->
                  IF i = ROOT_INO
                  THEN [i_mode |-> S_IFDIR, i_nlink |-> 2, i_size |-> 4096,
                        i_blocks |-> 1, ei_block |-> ROOT_EI, i_data |-> 0]
                  ELSE ZeroInode]
    /\ blk = [b \in 1..nb |-> ZeroBlock]
    /\ ifree = (1..(ni - 1)) \ {ROOT_INO}
    /\ bfree = (1..nb) \ {ROOT_EI}
    /\ nr_free_inodes = ni - 2
    /\ nr_free_blocks = nb - 1
    /\ fault = "none"
    /\ steps = 0

Init == InitImage(NR_INODES, NR_BLOCKS)

\* operations go on while the kernel is in defined behaviour, up to n of them
Ready(n) == fault = "none" /\ steps < n

\* the state after an operation with result r
Apply(r) ==
    /\ inode' = r.s.inode
    /\ blk' = r.s.blk
    /\ ifree' = r.s.ifree
    /\ bfree' = r.s.bfree
    /\ nr_free_inodes' = r.s.nr_free_inodes
    /\ nr_free_blocks' = r.s.nr_free_blocks
    /\ fault' = r.fault
    /\ steps' = steps + 1

\* a lookup that never returns, or reads past the block
LookupFault == Apply(Fault(FS, "lookup left defined behaviour"))

CreateIn(D, n) ==
    /\ Ready(n)
    /\ \E dir \in D, name \in Names :
          LET l == simplefs_lookup(FS, dir, name) IN
          /\ l <= 0
          /\ IF l < 0 THEN LookupFault
             ELSE \E ufi \in UninitFi, io \in IoPoints :
                     Apply(simplefs_create(FS, dir, name, S_IFREG, ufi, io))

MkdirIn(D, n) ==
    /\ Ready(n)
    /\ \E dir \in D, name \in Names :
          /\ simplefs_lookup(FS, dir, name) = 0
          /\ \E ufi \in UninitFi, io \in IoPoints :
                Apply(simplefs_create(FS, dir, name, S_IFDIR, ufi, io))

\* the VFS refuses to unlink a directory
UnlinkIn(D, n) ==
    /\ Ready(n)
    /\ \E dir \in D, name \in Names :
          LET l == simplefs_lookup(FS, dir, name) IN
          /\ l > 0
          /\ ~IsDir(FS, l)
          /\ \E io \in UnlinkIo : Apply(simplefs_unlink(FS, dir, name, l, io))

RmdirIn(D, n) ==
    /\ Ready(n)
    /\ \E dir \in D, name \in Names :
          LET l == simplefs_lookup(FS, dir, name) IN
          /\ IsDir(FS, l)
          /\ Apply(simplefs_rmdir(FS, dir, name, l))

\* what the VFS lets through to ->link: an existing source that is no
\* directory and a name that lookup did not find
CanLink(s, sdir, sname, dir, name) ==
    /\ simplefs_lookup(s, sdir, sname) > 0
    /\ ~IsDir(s, simplefs_lookup(s, sdir, sname))
    /\ simplefs_lookup(s, dir, name) = 0

LinkIn(D, n) ==
    /\ Ready(n)
    /\ \E sdir \in D, sname \in Names :
          /\ simplefs_lookup(FS, sdir, sname) > 0
          /\ \E dir \in D, name \in Names :
                /\ CanLink(FS, sdir, sname, dir, name)
                /\ \E ufi \in UninitFi, io \in IoPoints :
                      Apply(simplefs_link(FS, simplefs_lookup(FS, sdir, sname),
                                          dir, name, ufi, io))

SymlinkIn(D, n) ==
    /\ Ready(n)
    /\ \E dir \in D, name \in Names :
          /\ simplefs_lookup(FS, dir, name) = 0
          /\ \E len \in TargetLens, ufi \in UninitFi, io \in IoPoints :
                Apply(simplefs_symlink(FS, dir, name, len, ufi, io))

\* what the VFS lets through to ->rename: an existing source, a target that
\* is not the source and is of the same kind when it exists, and no move of
\* a directory below itself
CanRename(s, old_dir, old_name, new_dir, new_name) ==
    LET src == simplefs_lookup(s, old_dir, old_name)
        tgt == simplefs_lookup(s, new_dir, new_name)
    IN  /\ src > 0
        /\ tgt >= 0
        /\ tgt # src
        /\ tgt > 0 => (IsDir(s, tgt) <=> IsDir(s, src))
        /\ IsDir(s, src) =>
              /\ new_dir # src
              /\ \A n \in Names : simplefs_lookup(s, src, n) # new_dir

RenameIn(D, n) ==
    /\ Ready(n)
    /\ \E old_dir \in D, old_name \in Names :
          /\ simplefs_lookup(FS, old_dir, old_name) > 0
          /\ \E new_dir \in D, new_name \in Names :
                /\ CanRename(FS, old_dir, old_name, new_dir, new_name)
                /\ Apply(simplefs_rename(FS, old_dir, old_name,
                                         simplefs_lookup(FS, old_dir, old_name),
                                         new_dir, new_name))

\* a write to a regular file that the VFS found by name
WriteIn(D, n) ==
    /\ Ready(n)
    /\ \E dir \in D, name \in Names :
          LET l == simplefs_lookup(FS, dir, name) IN
          /\ l > 0
          /\ FS.inode[l].i_mode = S_IFREG
          /\ FS.inode[l].ei_block # 0
          /\ \E len \in RunLens :
                Apply(simplefs_file_get_block(FS, l, len))

\* every operation, in every directory the VFS can reach
Create == CreateIn(DirSet(FS), MaxSteps)
Mkdir == MkdirIn(DirSet(FS), MaxSteps)
Unlink == UnlinkIn(DirSet(FS), MaxSteps)
Rmdir == RmdirIn(DirSet(FS), MaxSteps)
Link == LinkIn(DirSet(FS), MaxSteps)
Symlink == SymlinkIn(DirSet(FS), MaxSteps)
Rename == RenameIn(DirSet(FS), MaxSteps)

Next == Create \/ Mkdir \/ Unlink \/ Rmdir \/ Link \/ Symlink \/ Rename

Spec == Init /\ [][Next]_vars

\* longer runs of the operations on files, all in the root directory
RootCreate == CreateIn({ROOT_INO}, MaxRootSteps)
RootUnlink == UnlinkIn({ROOT_INO}, MaxRootSteps)
RootLink == LinkIn({ROOT_INO}, MaxRootSteps)
RootSymlink == SymlinkIn({ROOT_INO}, MaxRootSteps)
RootRename == RenameIn({ROOT_INO}, MaxRootSteps)

NextRoot == RootCreate \/ RootUnlink \/ RootLink \/ RootSymlink \/ RootRename

SpecRoot == Init /\ [][NextRoot]_vars

\* runs in the root directory in which regular files also grow
FileCreate == CreateIn({ROOT_INO}, MaxFileSteps)
FileWrite == WriteIn({ROOT_INO}, MaxFileSteps)
FileUnlink == UnlinkIn({ROOT_INO}, MaxFileSteps)
FileLink == LinkIn({ROOT_INO}, MaxFileSteps)
FileSymlink == SymlinkIn({ROOT_INO}, MaxFileSteps)
FileRename == RenameIn({ROOT_INO}, MaxFileSteps)

NextFile ==
    FileCreate \/ FileWrite \/ FileUnlink \/ FileLink \/ FileSymlink
       \/ FileRename

SpecFile == Init /\ [][NextFile]_vars

\* the root directory filled by consecutive creates, every one under a name
\* not used before, on the image that has room for all of them, and one
\* create more
FillSteps == MAX_SUBFILES + 1

FillIn(mode) ==
    /\ Ready(FillSteps)
    /\ LET name == steps + 1 IN
       /\ simplefs_lookup(FS, ROOT_INO, name) = 0
       /\ \E ufi \in UninitFi :
             Apply(simplefs_create(FS, ROOT_INO, name, mode, ufi, "none"))

FillCreate == FillIn(S_IFREG)
FillMkdir == FillIn(S_IFDIR)

NextFill == FillCreate \/ FillMkdir

SpecFill == InitImage(FillInodes, FillBlocks) /\ [][NextFill]_vars

\* ------------------------------------------------------------ the claims
RECURSIVE Sum(_, _)
Sum(f, S) ==
    IF S = {} THEN 0
    ELSE LET x == CHOOSE y \in S : TRUE IN f[x] + Sum(f, S \ {x})

\* the inodes that are directories
Dirs(s) == {i \in DOMAIN s.inode : s.inode[i].i_mode = S_IFDIR}
\* the extent index of directory d
Index(s, d) == s.blk[s.inode[d].ei_block]
\* the block numbers of extent record e
ExtBlocks(e) ==
    IF e.ee_start = 0 THEN {} ELSE e.ee_start..(e.ee_start + e.ee_len - 1)
\* the directory blocks of directory d
DirBlocks(s, d) == UNION {ExtBlocks(Index(s, d).extents[ei]) : ei \in Exts}
\* the slots of block db that hold an inode number
LiveSlots(db) == {i \in Slots : db.files[i].inode # 0}
\* the number of live entries in the blocks of extent record e
ExtLive(s, e) ==
    Sum([b \in ExtBlocks(e) |-> Cardinality(LiveSlots(s.blk[b]))],
        ExtBlocks(e))
\* the number of live entries of the whole namespace that name inode i
Refs(s, i) ==
    Sum([d \in Dirs(s) |->
           Sum([b \in DirBlocks(s, d) |->
                  Cardinality({k \in Slots : s.blk[b].files[k].inode = i})],
               DirBlocks(s, d))],
        Dirs(s))
\* the number of live entries of directory d that name a directory
SubDirs(s, d) ==
    Sum([b \in DirBlocks(s, d) |->
           Cardinality({k \in LiveSlots(s.blk[b]) :
                           s.inode[s.blk[b].files[k].inode].i_mode = S_IFDIR})],
        DirBlocks(s, d))

\* the traversal fi += files[fi].nr_blk from slot fi ends exactly at FPB
\* and every step advances
RECURSIVE Covers(_, _)
Covers(db, fi) ==
    IF fi = FPB THEN TRUE
    ELSE IF fi > FPB THEN FALSE
    ELSE IF db.files[fi].nr_blk = 0 THEN FALSE
    ELSE Covers(db, fi + db.files[fi].nr_blk)

\* C1: in every directory each extent's nr_files is the number of live
\* entries in that extent's blocks, and the index block's nr_files is the
\* sum of its extents' nr_files.
C1_ExtentCounts ==
    fault = "none" =>
       \A d \in Dirs(FS) :
          LET eb == Index(FS, d) IN
          /\ \A ei \in Exts :
                eb.extents[ei].ee_start # 0 =>
                   eb.extents[ei].nr_files = ExtLive(FS, eb.extents[ei])
          /\ eb.nr_files = Sum([ei \in Exts |-> eb.extents[ei].nr_files], Exts)

\* C2: every inode with a non-zero mode has i_nlink >= 1, and i_nlink is
\* the number of live directory entries that name it, plus, for a
\* directory, one for "." and one for each subdirectory it contains (the
\* root, which no entry names, counts its own ".." as its entry).
C2_LinkCounts ==
    fault = "none" =>
       \A i \in DOMAIN inode :
          inode[i].i_mode # MODE_ZERO =>
             /\ inode[i].i_nlink >= 1
             /\ inode[i].i_nlink =
                   IF inode[i].i_mode = S_IFDIR
                   THEN Refs(FS, i) + 1 + SubDirs(FS, i) +
                        (IF i = ROOT_INO THEN 1 ELSE 0)
                   ELSE Refs(FS, i)

\* C3: in every directory block the traversal fi += files[fi].nr_blk from
\* slot 0 covers exactly FPB slots without revisiting one, and the number of
\* slots holding an inode number is the block's nr_files.
C3_BlockEncoding ==
    fault = "none" =>
       \A d \in Dirs(FS) : \A b \in DirBlocks(FS, d) :
          /\ Covers(blk[b], 0)
          /\ Cardinality(LiveSlots(blk[b])) = blk[b].nr_files

\* C4: nr_free_inodes is the number of free bits of the inode bitmap and
\* nr_free_blocks the number of free bits of the block bitmap (no inode or
\* block is released twice).
C4_BitmapCounters ==
    /\ nr_free_inodes = Cardinality(ifree)
    /\ nr_free_blocks = Cardinality(bfree)

\* C5: in every directory's extent index the empty extents (ee_start = 0)
\* form a suffix, and the logical ranges [ee_block, ee_block + ee_len) of
\* the others do not overlap and increase with the extent index.
C5_ExtentOrder ==
    fault = "none" =>
       \A d \in Dirs(FS) :
          LET eb == Index(FS, d) IN
          \A i \in Exts, j \in Exts :
             i < j /\ eb.extents[j].ee_start # 0 =>
                /\ eb.extents[i].ee_start # 0
                /\ eb.extents[i].ee_block + eb.extents[i].ee_len
                      <= eb.extents[j].ee_block

\* directory d holds a live entry named n
HasEntry(s, d, n) ==
    \E b \in DirBlocks(s, d), k \in Slots :
       s.blk[b].files[k].inode # 0 /\ s.blk[b].files[k].filename = n
\* no two live entries of directory d carry the same name
NoDuplicate(s, d) ==
    \A b1 \in DirBlocks(s, d), b2 \in DirBlocks(s, d) :
       \A k1 \in Slots, k2 \in Slots :
          (/\ s.blk[b1].files[k1].inode # 0
           /\ s.blk[b2].files[k2].inode # 0
           /\ s.blk[b1].files[k1].filename = s.blk[b2].files[k2].filename)
          => (b1 = b2 /\ k1 = k2)
\* the counters and run lengths of directory d over the blocks in B
DirShape(s, d, B) ==
    [nr_files |-> Index(s, d).nr_files,
     ext |-> [ei \in Exts |-> Index(s, d).extents[ei].nr_files],
     blocks |-> [b \in B |->
                   [nr_files |-> s.blk[b].nr_files,
                    nr_blk |-> [k \in Slots |-> s.blk[b].files[k].nr_blk]]]]

\* C6: when directory D has no live entry named n and create(D, n, mode)
\* succeeds, an immediate lookup(D, n) returns the inode number that the
\* create allocated.
C6_CreateThenLookup ==
    fault = "none" =>
       \A dir \in DirSet(FS), name \in Names, mode \in {S_IFREG, S_IFDIR} :
          \A ufi \in UninitFi :
             LET r == simplefs_create(FS, dir, name, mode, ufi, "none") IN
             (/\ ~HasEntry(FS, dir, name)
              /\ simplefs_lookup(FS, dir, name) = 0
              /\ r.fault = "none" /\ r.ret = "OK")
             => simplefs_lookup(r.s, dir, name) = get_free_inode(FS)

\* C7: after unlink(D, n) succeeded, lookup(D, n) returns NOT_FOUND.
C7_UnlinkThenLookup ==
    fault = "none" =>
       \A dir \in DirSet(FS), name \in Names, io \in UnlinkIo :
          LET l == simplefs_lookup(FS, dir, name)
              r == simplefs_unlink(FS, dir, name, l, io)
          IN  (l > 0 /\ ~IsDir(FS, l) /\ r.fault = "none" /\ r.ret = "OK")
              => simplefs_lookup(r.s, dir, name) = 0

\* C8: for an existing file a and a free name b in directory D,
\* link(a, D, b) followed by unlink(D, b) leaves a's i_nlink and D's index
\* nr_files, every extent's nr_files, every block's nr_files and every run
\* length as they were.
C8_LinkUnlinkRestores ==
    fault = "none" =>
       \A sdir \in DirSet(FS), sname \in Names :
          \A dir \in DirSet(FS), name \in Names, ufi \in UninitFi :
             LET a == simplefs_lookup(FS, sdir, sname)
                 r1 == simplefs_link(FS, a, dir, name, ufi, "none")
                 r2 == simplefs_unlink(r1.s, dir, name, a, "none")
             IN  (/\ CanLink(FS, sdir, sname, dir, name)
                  /\ ~HasEntry(FS, dir, name)
                  /\ r1.fault = "none" /\ r1.ret = "OK"
                  /\ simplefs_lookup(r1.s, dir, name) = a
                  /\ r2.fault = "none" /\ r2.ret = "OK")
                 => /\ r2.s.inode[a].i_nlink = inode[a].i_nlink
                    /\ DirShape(r2.s, dir, DirBlocks(FS, dir))
                          = DirShape(FS, dir, DirBlocks(FS, dir))

\* C9: rename(D, a, D, b) with live entries a and b in D returns EXISTS
\* and leaves the entries as they were; no rename leaves a directory with
\* two live entries of the same name.
C9_RenameCollision ==
    fault = "none" =>
       \A old_dir \in DirSet(FS), old_name \in Names :
          \A new_dir \in DirSet(FS), new_name \in Names :
             LET src == simplefs_lookup(FS, old_dir, old_name)
                 r == simplefs_rename(FS, old_dir, old_name, src,
                                      new_dir, new_name)
             IN  (/\ CanRename(FS, old_dir, old_name, new_dir, new_name)
                  /\ NoDuplicate(FS, old_dir) /\ NoDuplicate(FS, new_dir)
                  /\ r.fault = "none")
                 => /\ (/\ old_dir = new_dir
                        /\ simplefs_lookup(FS, new_dir, new_name) > 0)
                       => (r.ret = "EEXIST" /\ r.s.blk = blk)
                    /\ NoDuplicate(r.s, old_dir)
                    /\ NoDuplicate(r.s, new_dir)

\* C10: unlink of an entry whose inode, a regular file or a symlink, has
\* i_nlink >= 2 removes that one entry and decrements i_nlink; the inode
\* stays allocated with its mode, size, block count and extent index.
C10_UnlinkKeepsLinkedInode ==
    fault = "none" =>
       \A dir \in DirSet(FS), name \in Names, io \in UnlinkIo :
          LET l == simplefs_lookup(FS, dir, name)
              r == simplefs_unlink(FS, dir, name, l, io)
          IN  (/\ l > 0
               /\ inode[l].i_mode \in {S_IFREG, S_IFLNK}
               /\ inode[l].i_nlink >= 2
               /\ l \notin ifree
               /\ r.fault = "none" /\ r.ret = "OK")
              => /\ r.s.inode[l] =
                       [inode[l] EXCEPT !.i_nlink = inode[l].i_nlink - 1]
                 /\ l \notin r.s.ifree
                 /\ r.s.nr_free_inodes = nr_free_inodes
                 /\ Refs(r.s, l) = Refs(FS, l) - 1

\* the live entries of directory d, as (name, inode number) pairs
Entries(s, d) ==
    UNION {{<<s.blk[b].files[k].filename, s.blk[b].files[k].inode>> :
               k \in LiveSlots(s.blk[b])} : b \in DirBlocks(s, d)}

\* C11: rmdir(dir, name) on a child directory that still holds at least one
\* directory entry returns NOT_EMPTY and changes nothing.
C11_RmdirNotEmpty ==
    fault = "none" =>
       \A dir \in DirSet(FS), name \in Names :
          LET l == simplefs_lookup(FS, dir, name)
              r == simplefs_rmdir(FS, dir, name, l)
          IN  (IsDir(FS, l) /\ Entries(FS, l) # {} /\ r.fault = "none")
              => (r.ret = "ENOTEMPTY" /\ r.s = FS)

\* the total length of the extents that index block eb lists
ExtentsLen(eb) ==
    Sum([ei \in Exts |-> IF eb.extents[ei].ee_start # 0
                         THEN eb.extents[ei].ee_len ELSE 0], Exts)

\* the entry (dir, name) is the last link of regular file l
LastLinkOfFile(dir, name, l) ==
    /\ simplefs_lookup(FS, dir, name) = l
    /\ l > 0
    /\ inode[l].i_mode = S_IFREG
    /\ inode[l].i_nlink = 1
    /\ inode[l].ei_block # 0

\* unlink result r released the L data blocks, the index block and inode l
ReleasedAll(r, l, L) ==
    /\ r.s.nr_free_blocks = nr_free_blocks + L + 1
    /\ r.s.nr_free_inodes = nr_free_inodes + 1
    /\ r.s.inode[l].i_mode = MODE_ZERO
    /\ r.s.inode[l].i_size = 0
    /\ r.s.inode[l].i_blocks = 0
    /\ r.s.inode[l].ei_block = 0

C13_FillToLimit ==
    fault = "none" =>
      \A mode \in {S_IFREG, S_IFDIR}, ufi \in UninitFi :
         LET n == Index(FS, ROOT_INO).nr_files
             r == simplefs_create(FS, ROOT_INO, steps + 1, mode, ufi, "none")
         IN  /\ steps < MAX_SUBFILES =>
                  n = steps /\ r.fault = "none" /\ r.ret = "OK"
             /\ n = MAX_SUBFILES =>
                  \A io \in IoPoints :
                     LET f == simplefs_create(FS, ROOT_INO, steps + 1, mode,
                                              ufi, io)
                     IN  f.fault = "none" /\ f.ret = "EMLINK" /\ f.s = FS

\* the root holds MAX_SUBFILES entries, an inode and a block are still
\* free, and the next create is refused
C13_Witness ==
    /\ fault = "none"
    /\ steps = MAX_SUBFILES
    /\ Index(FS, ROOT_INO).nr_files = MAX_SUBFILES
    /\ nr_free_inodes > 0 /\ nr_free_blocks > 0
    /\ simplefs_create(FS, ROOT_INO, steps + 1, S_IFREG, 0, "none").ret
          = "EMLINK"

\* what C14 observes of directory d and inode i: the name-to-inode entries
\* of d, the link count of i, and the nr_files counters of d (index,
\* extents, blocks)
Observed(s, d, i) ==
    [entries |-> Entries(s, d),
     nlink |-> s.inode[i].i_nlink,
     index |-> Index(s, d).nr_files,
     extents |-> [e \in Exts |-> Index(s, d).extents[e].nr_files],
     blocks |-> {<<b, s.blk[b].nr_files>> : b \in DirBlocks(s, d)}]

\* C14: for x # y with y free in d, rename(d, x, d, y) leaves the same
\* observable state as unlink(d, x) followed by link(old_ino, d, y),
\* whatever the layout of d's blocks.
C14_RenameAsUnlinkLink ==
    fault = "none" =>
      \A dir \in DirSet(FS), x \in Names, y \in Names, ufi \in UninitFi :
         LET l == simplefs_lookup(FS, dir, x)
             r == simplefs_rename(FS, dir, x, l, dir, y)
             u == simplefs_unlink(FS, dir, x, l, "none")
             k == simplefs_link(u.s, l, dir, y, ufi, "none")
         IN  (/\ x # y
              /\ l > 0
              /\ ~IsDir(FS, l)
              /\ simplefs_lookup(FS, dir, y) = 0
              /\ r.fault = "none" /\ r.ret = "OK"
              /\ u.fault = "none" /\ u.ret = "OK"
              /\ k.fault = "none" /\ k.ret = "OK")
             => Observed(r.s, dir, l) = Observed(k.s, dir, l)

\* what C15 compares for parent directory d: the free counters and
\* bitmaps, d's extent index, the slots of d's directory blocks, d's nlink
Footprint(s, d) ==
    [nr_free_inodes |-> s.nr_free_inodes,
     nr_free_blocks |-> s.nr_free_blocks,
     ifree |-> s.ifree,
     bfree |-> s.bfree,
     index |-> Index(s, d),
     slots |-> {<<b, s.blk[b]>> : b \in DirBlocks(s, d)},
     nlink |-> s.inode[d].i_nlink]

\* C15: mkdir(dir, name) followed by rmdir(dir, name) restores the free
\* counters and bitmaps, the parent's extent index, the parent's
\* directory-block slot layout and the parent's nlink.
C15_MkdirRmdirRestores ==
    fault = "none" =>
      \A dir \in DirSet(FS), name \in Names, ufi \in UninitFi :
         LET m == simplefs_create(FS, dir, name, S_IFDIR, ufi, "none")
             l == simplefs_lookup(m.s, dir, name)
             r == simplefs_rmdir(m.s, dir, name, l)
         IN  (/\ simplefs_lookup(FS, dir, name) = 0
              /\ m.fault = "none" /\ m.ret = "OK"
              /\ l > 0
              /\ r.fault = "none" /\ r.ret = "OK")
             => Footprint(r.s, dir) = Footprint(FS, dir)

\* the create that follows the creates done so far, and the inode it takes
NextCreate(mode, ufi) ==
    simplefs_create(FS, ROOT_INO, steps + 1, mode, ufi, "none")

\* block bno holds the entry (ino, name) in some slot
Holds(s, bno, ino, name) ==
    \E k \in Slots : /\ s.blk[bno].files[k].inode = ino
                      /\ s.blk[bno].files[k].filename = name

NoExtentYet(s, d) ==
    /\ Index(s, d).nr_files = 0
    /\ \A e \in Exts : Index(s, d).extents[e] = ZeroExt

\* C17: a successful create in an empty directory without an extent gives
\* the new inode nlink 1, i_blocks 1, i_size 0 and the lowest free block
\* as ei_block; the parent's extent 0 starts at the next free run and has
\* nr_files 1, the index has nr_files 1, and lookup of the name finds the
\* inode.  A directory created the same way has nlink 2 and i_size BS and
\* raises the parent's nlink by 1.
C17_FirstCreate ==
    fault = "none" =>
      \A dir \in DirSet(FS), name \in Names, ufi \in UninitFi,
         mode \in {S_IFREG, S_IFDIR} :
         LET r == simplefs_create(FS, dir, name, mode, ufi, "none")
             ino == get_free_inode(FS)
             bno == Min(FS.bfree)
             new == r.s.inode[ino]
             e0 == Index(r.s, dir).extents[0]
         IN  (/\ NoExtentYet(FS, dir)
              /\ simplefs_lookup(FS, dir, name) = 0
              /\ r.fault = "none" /\ r.ret = "OK")
             => /\ new.i_mode = mode
                /\ new.i_blocks = 1
                /\ new.ei_block = bno
                /\ new.i_nlink = (IF mode = S_IFDIR THEN 2 ELSE 1)
                /\ new.i_size = (IF mode = S_IFDIR THEN 4096 ELSE 0)
                /\ r.s.inode[dir].i_nlink =
                      FS.inode[dir].i_nlink + (IF mode = S_IFDIR THEN 1 ELSE 0)
                /\ e0.ee_start = get_free_blocks(take_blocks(FS, bno, 1),
                                                 MAX_BPE)
                /\ e0.nr_files = 1
                /\ Index(r.s, dir).nr_files = 1
                /\ simplefs_lookup(r.s, dir, name) = ino

\* the extents of directory d in s1 that d did not have in s
NewExtents(s, s1, d) ==
    {e \in Exts : /\ Index(s, d).extents[e].ee_start = 0
                  /\ Index(s1, d).extents[e].ee_start # 0}

\* target lengths that fit i_data with their NUL: the shortest, one in
\* between, the longest
ShortLens == {0, 6, DATA_LEN - 1}

ExtentFiles(s, d) ==
    Sum([e \in Exts |-> Index(s, d).extents[e].nr_files], Exts)

\* the entries that the blocks of directory d count together
BlockFiles(s, d) ==
    Sum([b \in DOMAIN s.blk |-> s.blk[b].nr_files], DirBlocks(s, d))

\* C19: after a successful rename(olddir, x, newdir, y) with olddir #
\* newdir and y free in newdir, lookup(newdir, y) returns the source
\* inode, lookup(olddir, x) finds nothing, the block, extent and index
\* nr_files of newdir are one higher and those of olddir one lower.
C19_CrossRename ==
    fault = "none" =>
      \A old_dir \in DirSet(FS), new_dir \in DirSet(FS),
         x \in Names, y \in Names :
         LET l == simplefs_lookup(FS, old_dir, x)
             r == simplefs_rename(FS, old_dir, x, l, new_dir, y)
         IN  (/\ old_dir # new_dir
              /\ l > 0
              /\ l # new_dir
              /\ simplefs_lookup(FS, new_dir, y) = 0
              /\ r.fault = "none" /\ r.ret = "OK")
             => /\ simplefs_lookup(r.s, new_dir, y) = l
                /\ simplefs_lookup(r.s, old_dir, x) = 0
                /\ Index(r.s, new_dir).nr_files =
                      Index(FS, new_dir).nr_files + 1
                /\ ExtentFiles(r.s, new_dir) = ExtentFiles(FS, new_dir) + 1
                /\ BlockFiles(r.s, new_dir) = BlockFiles(FS, new_dir) + 1
                /\ Index(r.s, old_dir).nr_files =
                      Index(FS, old_dir).nr_files - 1
                /\ ExtentFiles(r.s, old_dir) = ExtentFiles(FS, old_dir) - 1
                /\ BlockFiles(r.s, old_dir) = BlockFiles(FS, old_dir) - 1

\* C20: in a directory block whose slot 0 is live, lookup returns every
\* live entry with its inode number, also an entry behind a gap (an
\* earlier slot has nr_blk > 1 because an entry was removed).
C20_LookupBehindGap ==
    fault = "none" =>
      \A dir \in DirSet(FS) :
         NoDuplicate(FS, dir) =>
           \A b \in DirBlocks(FS, dir) :
              blk[b].files[0].inode # 0 =>
                \A k \in LiveSlots(blk[b]) :
                   simplefs_lookup(FS, dir, blk[b].files[k].filename)
                      = blk[b].files[k].inode

\* the block at offset bi of extent ei of directory d
BlockAt(s, d, ei, bi) == s.blk[Index(s, d).extents[ei].ee_start + bi]

\* C21: when lookup reaches a directory block whose first slot is free it
\* gives up on that block only: an entry in slot 0 of a later block of the
\* same extent, or of a later extent, is still found.
C21_LookupPastFreeSlot ==
    fault = "none" =>
      \A dir \in DirSet(FS) :
         NoDuplicate(FS, dir) =>
           \A e1 \in Exts, e2 \in Exts, b1 \in 0..(MAX_BPE - 1),
              b2 \in 0..(MAX_BPE - 1) :
              (/\ e1 < e2 \/ (e1 = e2 /\ b1 < b2)
               /\ \A e \in 0..e2 : Index(FS, dir).extents[e].ee_start # 0
               /\ BlockAt(FS, dir, e1, b1).nr_files # 0
               /\ BlockAt(FS, dir, e1, b1).files[0].inode = 0
               /\ BlockAt(FS, dir, e2, b2).files[0].inode # 0)
              => simplefs_lookup(FS, dir,
                                 BlockAt(FS, dir, e2, b2).files[0].filename)
                    = BlockAt(FS, dir, e2, b2).files[0].inode

\* the free counters and bitmaps, and the extent index and directory
\* blocks of directory d
Holdings(s, d) ==
    [nr_free_inodes |-> s.nr_free_inodes,
     nr_free_blocks |-> s.nr_free_blocks,
     ifree |-> s.ifree,
     bfree |-> s.bfree,
     index |-> Index(s, d),
     blocks |-> {<<b, s.blk[b]>> : b \in DirBlocks(s, d)}]

\* C22: when create or mkdir fails after the child inode was allocated
\* (ENOSPC for the parent's extent, EIO on a block read), the child's
\* inode and index block are released, so the free counters and bitmaps
\* are as before the call, and the parent's extent index and directory
\* blocks are unchanged.
C22_CreateRollback ==
    fault = "none" =>
      \A dir \in DirSet(FS), name \in Names :
         simplefs_lookup(FS, dir, name) = 0 =>
           \A mode \in {S_IFREG, S_IFDIR}, ufi \in UninitFi, io \in IoPoints :
           \A r \in {simplefs_create(FS, dir, name, mode, ufi, io)} :
              (/\ simplefs_new_inode(FS, mode).ret = "OK"
               /\ Index(FS, dir).nr_files # MAX_SUBFILES
               /\ r.fault = "none"
               /\ r.ret \in {"ENOSPC", "EIO"})
              => Holdings(r.s, dir) = Holdings(FS, dir)

\* C23: a symlink call that fails (ENAMETOOLONG, EMLINK, or ENOSPC/EIO
\* during the directory insertion) leaves nr_free_inodes and the inode
\* bitmap exactly as before the call.
C23_SymlinkFailureKeepsInodes ==
    fault = "none" =>
      \A dir \in DirSet(FS), name \in Names :
         simplefs_lookup(FS, dir, name) = 0 =>
           \A len \in TargetLens, ufi \in UninitFi, io \in IoPoints :
           \A r \in {simplefs_symlink(FS, dir, name, len, ufi, io)} :
              (r.fault = "none" /\ r.ret # "OK")
              => /\ r.s.nr_free_inodes = FS.nr_free_inodes
                 /\ r.s.ifree = FS.ifree

\* an insertion into directory d has to allocate a fresh extent
NeedsNewExtent(s, d) ==
    LET eb == Index(s, d)
        a == simplefs_get_available_ext_idx(eb.nr_files, eb)
    IN  /\ a.avail \in Exts
        /\ a.dnf = 0
        /\ eb.extents[a.avail].ee_start = 0

\* the call allocated a fresh extent of d and failed with EIO, yet the
\* extent records of d or the block bitmap are not what they were
BadRollback(s, d, r) ==
    /\ NeedsNewExtent(s, d)
    /\ r.fault = "none"
    /\ r.ret = "EIO"
    /\ \/ Index(r.s, d).extents # Index(s, d).extents
       \/ r.s.bfree # s.bfree
       \/ r.s.nr_free_blocks # s.nr_free_blocks

\* C24: whenever create, link or symlink allocates a fresh directory
\* extent at index avail and then fails with EIO (seeding the extent or
\* reading one of its blocks), exactly that extent's MAX_BPE blocks are
\* released and exactly extents[avail] is zeroed: the extent records and
\* the block bitmap are as before the call.
C24_ExtentRollback ==
    fault = "none" =>
      \A dir \in DirSet(FS), name \in Names :
         simplefs_lookup(FS, dir, name) = 0 =>
           \A ufi \in UninitFi, io \in {"seed", "find"} :
              /\ ~BadRollback(FS, dir,
                     simplefs_create(FS, dir, name, S_IFREG, ufi, io))
              /\ ~BadRollback(FS, dir,
                     simplefs_symlink(FS, dir, name, 6, ufi, io))
              /\ \A n \in Names :
                    LET l == simplefs_lookup(FS, dir, n) IN
                    (l > 0 /\ ~IsDir(FS, l)) =>
                       ~BadRollback(FS, dir,
                          simplefs_link(FS, l, dir, name, ufi, io))

\* C25: an unlink for which the walk of simplefs_remove_from_dir finds no
\* live entry matching name and inode number fails with ENOENT and
\* changes nothing.  The unlink is the one of a name that a rename has just
\* given to the inode: the VFS keeps the renamed dentry, so it calls
\* simplefs_unlink on it without a new simplefs_lookup.
C25_UnlinkNotFound ==
    fault = "none" =>
      \A old_dir \in DirSet(FS), new_dir \in DirSet(FS),
         x \in Names, y \in Names :
         LET l == simplefs_lookup(FS, old_dir, x) IN
         (/\ l > 0
          /\ ~IsDir(FS, l)
          /\ <<old_dir, x>> # <<new_dir, y>>
          /\ simplefs_lookup(FS, new_dir, y) = 0)
         => \A r \in {simplefs_rename(FS, old_dir, x, l, new_dir, y)} :
               (r.fault = "none" /\ r.ret = "OK") =>
                  \A io \in UnlinkIo :
                     LET w == simplefs_remove_from_dir(r.s, new_dir, y, l)
                         u == simplefs_unlink(r.s, new_dir, y, l, io)
                     IN  (w.fault = "none" /\ ~w.found /\ u.fault = "none")
                         => (u.ret = "ENOENT" /\ u.s = r.s)

\* the calls that the extent loop of simplefs_unlink issues on a file's
\* extent index eb from extent ei on, in program order: per extent the
\* put_blocks of its blocks, then the scrub (memset and
\* mark_buffer_dirty) of each block
RECURSIVE scrub_calls(_, _, _)
scrub_calls(e, ei, bi) ==
    IF bi >= e.ee_len THEN <<>>
    ELSE <<[op |-> "scrub", ei |-> ei, bno |-> e.ee_start + bi]>>
            \o scrub_calls(e, ei, bi + 1)

RECURSIVE unlink_calls(_, _)
unlink_calls(eb, ei) ==
    IF ei >= MAX_EXT THEN <<>>
    ELSE IF eb.extents[ei].ee_start = 0 THEN <<>>
    ELSE <<[op |-> "put_blocks", ei |-> ei, bno |-> eb.extents[ei].ee_start]>>
            \o scrub_calls(eb.extents[ei], ei, 0)
            \o unlink_calls(eb, ei + 1)

\* C26: during the final unlink of a file, for every extent the clearing
\* of each of its data blocks is issued before the bitmap release of that
\* extent's blocks.
C26_ScrubBeforeRelease ==
    fault = "none" =>
      \A name \in Names :
         LET l == simplefs_lookup(FS, ROOT_INO, name) IN
         LastLinkOfFile(ROOT_INO, name, l) =>
            LET calls == unlink_calls(blk[inode[l].ei_block], 0) IN
            \A i \in DOMAIN calls, j \in DOMAIN calls :
               (/\ calls[i].op = "put_blocks"
                /\ calls[j].op = "scrub"
                /\ calls[i].ei = calls[j].ei)
               => j < i

\* The order in which a successful operation marks things of directory d
\* dirty: "block" is mark_buffer_dirty on the directory block, "index"
\* mark_buffer_dirty on the extent-index block, "times" the update of the
\* directory inode's timestamps.
Mark(what, d) == [what |-> what, dir |-> d]

\* create (inode.c 512-532), link (1039-1040), symlink (1140-1141); only
\* create touches the parent's timestamps
insert_marks(d, who) ==
    <<Mark("block", d), Mark("index", d)>>
       \o (IF who = "create" THEN <<Mark("times", d)>> ELSE <<>>)

\* simplefs_remove_from_dir (601, 614-616)
remove_marks(s, d, name, ino) ==
    IF simplefs_remove_from_dir(s, d, name, ino).found
    THEN <<Mark("block", d), Mark("index", d)>>
    ELSE <<>>

\* simplefs_unlink (646-670): the symlink shortcut skips the timestamps
unlink_marks(s, d, name, ino) ==
    remove_marks(s, d, name, ino)
       \o (IF s.inode[ino].i_mode = S_IFLNK THEN <<>>
           ELSE <<Mark("times", d)>>)

\* simplefs_rename: in place (813-816); at a position found in an existing
\* block (871-889); in a fresh extent, whose index is marked dirty at 868
\* before the slot is written (851-889); then the removal from old_dir
\* (893-911)
rename_marks(s, old_dir, old_name, src, new_dir, new_name) ==
    LET eb == s.blk[s.inode[new_dir].ei_block]
        w == rename_scan(s, eb, new_dir = old_dir, old_name, new_name, 0, 0)
        tail == <<Mark("times", new_dir)>>
                   \o remove_marks(s, old_dir, old_name, src)
                   \o <<Mark("times", old_dir)>>
    IN  CASE w.t = "inplace" -> <<Mark("block", new_dir)>>
          [] w.t = "pos" -> <<Mark("block", new_dir)>> \o tail
          [] OTHER -> <<Mark("index", new_dir), Mark("block", new_dir)>>
                         \o tail

\* per directory: every block mark before every index mark, every index
\* mark before every timestamp update
Ordered(marks) ==
    \A i \in DOMAIN marks, j \in DOMAIN marks :
       marks[i].dir = marks[j].dir =>
          /\ (marks[i].what = "block" /\ marks[j].what = "index") => i < j
          /\ (marks[i].what = "index" /\ marks[j].what = "times") => i < j

\* C27: within every mutating operation (create, link, symlink, unlink,
\* rename) that succeeds, the modified directory block is marked dirty
\* before the owning extent-index block, and the extent-index block before
\* the parent inode's timestamps are updated.
C27_DirtyOrder ==
    fault = "none" =>
      /\ \A who \in {"create", "link", "symlink"} :
            Ordered(insert_marks(ROOT_INO, who))
      /\ \A dir \in DirSet(FS), x \in Names :
            LET l == simplefs_lookup(FS, dir, x) IN
            (l > 0 /\ ~IsDir(FS, l)) =>
               /\ Ordered(unlink_marks(FS, dir, x, l))
               /\ \A new_dir \in DirSet(FS), y \in Names :
                     (/\ <<dir, x>> # <<new_dir, y>>
                      /\ simplefs_lookup(FS, new_dir, y) = 0)
                     => \A r \in {simplefs_rename(FS, dir, x, l,
                                                   new_dir, y)} :
                           (r.fault = "none" /\ r.ret = "OK") =>
                              Ordered(rename_marks(FS, dir, x, l, new_dir, y))

\* C28: a rename into newdir fails with EMLINK only when newdir already
\* holds MAX_SUBFILES entries; when newdir holds exactly FPE entries that
\* fill its only extent, and a free extent record and MAX_BPE free blocks
\* exist, the rename allocates a new extent and succeeds.  The file that
\* is renamed into the root has just been created in a subdirectory d of
\* the root.
C28_RenameLinkLimit ==
    fault = "none" =>
      \A n \in 1..steps :
         LET d == simplefs_lookup(FS, ROOT_INO, n) IN
         (d > 0 /\ IsDir(FS, d)) =>
            \A ufi \in UninitFi :
            \A c \in {simplefs_create(FS, d, 1, S_IFREG, ufi, "none")} :
               (c.fault = "none" /\ c.ret = "OK") =>
                  LET src == simplefs_lookup(c.s, d, 1)
                      r == simplefs_rename(c.s, d, 1, src, ROOT_INO,
                                           steps + 1)
                      eb == Index(FS, ROOT_INO)
                  IN  (src > 0 /\ r.fault = "none") =>
                      /\ r.ret = "EMLINK" => eb.nr_files = MAX_SUBFILES
                      /\ (/\ eb.nr_files = FPE
                          /\ eb.extents[0].nr_files = FPE
                          /\ eb.extents[1].ee_start = 0
                          /\ get_free_blocks(c.s, MAX_BPE) # 0)
                         => /\ r.ret = "OK"
                            /\ Index(r.s, ROOT_INO).extents[1].ee_start # 0

\* the extent that simplefs_get_available_ext_idx picks in d is allocated
\* and one of its blocks has a free slot
HasFreeSlot(s, d) ==
    LET eb == Index(s, d)
        a == simplefs_get_available_ext_idx(eb.nr_files, eb)
    IN  /\ eb.nr_files < MAX_SUBFILES
        /\ a.avail \in Exts
        /\ eb.extents[a.avail].ee_start # 0
        /\ \E bi \in 0..(MAX_BPE - 1) : BlockAt(s, d, a.avail, bi).nr_files < FPB

\* C29: symlink needs no data block of its own: with nr_free_blocks = 0,
\* a free inode, and an allocated extent with a free slot in the parent,
\* symlink(dir, name, target) succeeds instead of returning ENOSPC.
C29_SymlinkWithoutBlocks ==
    fault = "none" =>
      \A dir \in DirSet(FS), name \in Names :
         (/\ nr_free_blocks = 0
          /\ nr_free_inodes > 0
          /\ get_free_inode(FS) # 0
          /\ simplefs_lookup(FS, dir, name) = 0
          /\ HasFreeSlot(FS, dir))
         => \A ufi \in UninitFi :
            \A r \in {simplefs_symlink(FS, dir, name, 6, ufi, "none")} :
               r.fault = "none" /\ r.ret = "OK"

\* the extent and the directory block that create, link and symlink write
\* the new entry of dir into (inode.c 476-508, 1004-1036, 1105-1137); bno
\* is 0 when the extent is allocated by the call itself
insert_target(s, dir) ==
    LET eb == Index(s, dir)
        a == simplefs_get_available_ext_idx(eb.nr_files, eb)
    IN  IF a.avail \notin Exts THEN [ext_ok |-> FALSE, bno |-> 0]
        ELSE LET e == eb.extents[a.avail] IN
             IF e.ee_start = 0 \/ e.ee_len = 0 THEN [ext_ok |-> TRUE, bno |-> 0]
             ELSE [ext_ok |-> TRUE, bno |-> e.ee_start + find_block(s, e, 0)]

RangeFaults == {"directory slot out of range", "extent index out of range"}

\* C30: no namespace operation reads or writes a directory slot index >=
\* FPB or an extent index >= MAX_EXT, and an insertion (create, link,
\* symlink, rename) never targets a directory block whose nr_files already
\* equals FPB, also after links and symlinks were inserted into an extent.
C30_IndexBounds ==
    /\ fault \notin RangeFaults
    /\ fault = "none" =>
         \A dir \in DirSet(FS) :
            /\ (/\ Index(FS, dir).nr_files < MAX_SUBFILES
                /\ \E name \in Names : simplefs_lookup(FS, dir, name) = 0)
               => LET t == insert_target(FS, dir) IN
                  /\ t.ext_ok
                  /\ t.bno # 0 => FS.blk[t.bno].nr_files < FPB
            /\ \A old_dir \in DirSet(FS) \ {dir}, on \in Names, nn \in Names :
                  (/\ simplefs_lookup(FS, old_dir, on) > 0
                   /\ simplefs_lookup(FS, dir, nn) = 0)
                  => LET w == rename_scan(FS, Index(FS, dir), FALSE, on, nn,
                                          0, 0)
                     IN  /\ w.t # "oob"
                         /\ w.t = "pos" => /\ w.fi < FPB
                                           /\ FS.blk[w.bno].nr_files < FPB
    /\ fault = "none" =>
         \A n \in 1..steps, ufi \in UninitFi :
            LET l == simplefs_lookup(FS, ROOT_INO, n) IN
            (l > 0 /\ ~IsDir(FS, l)) =>
               \A a \in {simplefs_link(FS, l, ROOT_INO, steps + 1, ufi, "none")} :
               \A b \in {simplefs_link(a.s, l, ROOT_INO, steps + 2, ufi, "none")} :
               \A c \in {simplefs_link(b.s, l, ROOT_INO, steps + 3, ufi, "none")} :
                  (a.ret = "OK" /\ b.ret = "OK" /\ c.ret = "OK") =>
                     LET t == insert_target(c.s, ROOT_INO) IN
                     (Index(c.s, ROOT_INO).nr_files < MAX_SUBFILES) =>
                        /\ t.ext_ok
                        /\ t.bno # 0 => c.s.blk[t.bno].nr_files < FPB

\* ------------------------------------------- create, mkdir, unlink, rmdir
\* the block that the next insertion into dir writes holds no entry, so
\* simplefs_set_file_into_dir takes its second branch
EmptyTarget(s, dir) ==
    LET t == insert_target(s, dir) IN
    t.bno = 0 \/ s.blk[t.bno].nr_files = 0

\* create or mkdir; the uninitialised fi is 0 when the entry is the first
\* of its block
GapInsert(mode) ==
    /\ Ready(MaxSteps)
    /\ \E dir \in DirSet(FS), name \in Names :
          /\ simplefs_lookup(FS, dir, name) = 0
          /\ \E ufi \in UninitFi, io \in IoPoints :
                /\ EmptyTarget(FS, dir) => ufi = 0
                /\ Apply(simplefs_create(FS, dir, name, mode, ufi, io))

GapCreate == GapInsert(S_IFREG)
GapMkdir == GapInsert(S_IFDIR)
GapUnlink == UnlinkIn(DirSet(FS), MaxSteps)
GapRmdir == RmdirIn(DirSet(FS), MaxSteps)

NextGap == GapCreate \/ GapMkdir \/ GapUnlink \/ GapRmdir

SpecGap == Init /\ [][NextGap]_vars

\* the slots that the walk fi += files[fi].nr_blk visits from slot fi on
RECURSIVE Visited(_, _)
Visited(db, fi) ==
    IF fi >= FPB \/ db.files[fi].nr_blk = 0 THEN {}
    ELSE {fi} \cup Visited(db, fi + db.files[fi].nr_blk)

\* the gap encoding of directory block db is exact
ExactGaps(db) ==
    /\ Covers(db, 0)
    /\ \A i \in Visited(db, 0) : i # 0 => db.files[i].inode # 0
    /\ \A i \in Slots \ Visited(db, 0) : db.files[i].inode = 0
    /\ db.nr_files = 0 => /\ db.files[0].inode = 0
                          /\ db.files[0].nr_blk = FPB

\* C31: under create, mkdir, unlink and rmdir only (the first insertion
\* into an empty block using slot 0) every directory block keeps the gap
\* encoding exact: the walk covers exactly FPB slots, a free slot is
\* visited only at slot 0, every unvisited slot has inode 0, and a block
\* with nr_files = 0 has files[0] = (inode 0, nr_blk FPB).
C31_GapEncoding ==
    fault = "none" =>
       \A d \in Dirs(FS) : \A b \in DirBlocks(FS, d) : ExactGaps(FS.blk[b])

\* the slots of the directory blocks of d whose inode number or name is
\* not the same in s and in t
ChangedSlots(s, t, d) ==
    {bk \in DirBlocks(s, d) \X Slots :
        \/ t.blk[bk[1]].files[bk[2]].inode # s.blk[bk[1]].files[bk[2]].inode
        \/ t.blk[bk[1]].files[bk[2]].filename
              # s.blk[bk[1]].files[bk[2]].filename}

\* the successful insertion with result r into directory d of s wrote only
\* slots that were free and kept every entry
KeepsEntries(s, d, r) ==
    (r.fault = "none" /\ r.ret = "OK") =>
       /\ Entries(s, d) \subseteq Entries(r.s, d)
       /\ \A bk \in ChangedSlots(s, r.s, d) :
             s.blk[bk[1]].files[bk[2]].inode = 0

\* C32: a successful create, mkdir, link or symlink changes only the slot
\* it inserts into, and that slot held inode 0 before: in every reachable
\* state (also after a cross-directory rename into the directory) every
\* (name, inode) entry that the directory held is still there afterwards.
C32_InsertKeepsEntries ==
    fault = "none" =>
      \A dir \in DirSet(FS), name \in Names :
         simplefs_lookup(FS, dir, name) = 0 =>
            \A ufi \in UninitFi :
               /\ \A mode \in {S_IFREG, S_IFDIR} :
                     KeepsEntries(FS, dir,
                        simplefs_create(FS, dir, name, mode, ufi, "none"))
               /\ KeepsEntries(FS, dir,
                     simplefs_symlink(FS, dir, name, 6, ufi, "none"))
               /\ \A sname \in Names :
                     CanLink(FS, dir, sname, dir, name) =>
                        KeepsEntries(FS, dir,
                           simplefs_link(FS, simplefs_lookup(FS, dir, sname),
                                         dir, name, ufi, "none"))

====
